---- MODULE Spec2Model ----
(***************************************************************************)
(* markdeck: a terminal slide viewer for markdown.                         *)
(*                                                                         *)
(*   app.rs       App, load_slides, node_to_lines, collect_inline_spans    *)
(*   commands.rs  Command::execute                                         *)
(*   main.rs      render (the draw), the event loop                        *)
(*                                                                         *)
(* The scroll state is tui_scrollview::ScrollViewState {offset, size,      *)
(* page_size}; the operators named after its methods state what the        *)
(* methods called from commands.rs and main.rs do to it.                   *)
(***************************************************************************)
EXTENDS Integers, Sequences, FiniteSets, TLC

\* ------------------------------------------------------------------ bounds
MaxLen    == 4      \* top-level nodes in a document that is segmented
MaxDeck   == 3      \* top-level nodes in a document that is presented
MaxHeight == 4      \* terminal rows handed to a draw
MaxOffset == 3      \* scroll offsets followed away from the ends of u16
MaxWidth  == 1      \* terminal columns handed to a draw
MaxRun    == 3      \* consecutive slide commands remembered
MaxNest   == 2      \* inline containers around a leaf
MaxQuote  == 2      \* Blockquotes around a block

\* --------------------------------------------------------------- constants
U16Max    == 65535
RuleWidth == 40

Min(a, b) == IF a <= b THEN a ELSE b
Max(a, b) == IF a >= b THEN a ELSE b

\* (variant: the sum wraps)
saturating_add_wrap(a, b) == (a + b) % (U16Max + 1)

\* u16::saturating_add / u16::saturating_sub
saturating_add(a, b) == Min(a + b, U16Max)
saturating_sub(a, b) == Max(a - b, 0)

\* Option: None, Some(v)
None    == <<>>
Some(v) == <<v>>

\* ------------------------------------------------------------------- nodes
\* markdown::mdast::Node, one record shape for every variant.  value is the
\* text of a Text/InlineCode and the sequence of characters of a Code.
Mk(t, d, o, l, v, c) ==
    [type |-> t, depth |-> d, ordered |-> o, lang |-> l, value |-> v, children |-> c]

Text(v)          == Mk("Text", 0, FALSE, None, v, <<>>)
InlineCode(v)    == Mk("InlineCode", 0, FALSE, None, v, <<>>)
Break            == Mk("Break", 0, FALSE, None, "", <<>>)
Strong(c)        == Mk("Strong", 0, FALSE, None, "", c)
Emphasis(c)      == Mk("Emphasis", 0, FALSE, None, "", c)
Link(c)          == Mk("Link", 0, FALSE, None, "", c)
Heading(d, c)    == Mk("Heading", d, FALSE, None, "", c)
Paragraph(c)     == Mk("Paragraph", 0, FALSE, None, "", c)
ListItem(c)      == Mk("ListItem", 0, FALSE, None, "", c)
List(o, c)       == Mk("List", 0, o, None, "", c)
Code(l, v)       == Mk("Code", 0, FALSE, l, v, <<>>)
Blockquote(c)    == Mk("Blockquote", 0, FALSE, None, "", c)
ThematicBreak    == Mk("ThematicBreak", 0, FALSE, None, "", <<>>)
Root(c)          == Mk("Root", 0, FALSE, None, "", c)

\* Node::children(): Some for the parent variants, None for the literals.
ParentTypes ==
    {"Root", "Blockquote", "List", "ListItem", "Heading", "Paragraph",
     "Strong", "Emphasis", "Link"}
children(node) == IF node.type \in ParentTypes THEN node.children ELSE <<>>

\* ------------------------------------------------------------------ styles
\* ratatui Style / Span / Line.
StyleDefault        == [fg |-> "None", mods |-> {}]
fg(style, color)    == [style EXCEPT !.fg = color]
add_modifier(style, m) == [style EXCEPT !.mods = @ \cup {m}]

SpanStyled(content, style) == [content |-> content, style |-> style]
SpanRaw(content)           == SpanStyled(content, StyleDefault)

LineFrom(spans)             == [spans |-> spans, style |-> StyleDefault]
\* Line::raw / Line::styled split the content at line ends: "" has no span.
LineRaw(content) ==
    LineFrom(IF content = "" THEN <<>> ELSE <<SpanRaw(content)>>)
LineStyled(content, style) ==
    [spans |-> IF content = "" THEN <<>> ELSE <<SpanRaw(content)>>,
     style |-> style]

\* the code fence, three backquotes (TLA+ strings cannot hold a backquote)
Fence == "'''"

\* str::repeat
RECURSIVE repeat(_, _)
repeat(s, n) == IF n = 0 THEN "" ELSE s \o repeat(s, n - 1)

\* --------------------------------------------------------------- rendering
RECURSIVE collect_inline_spans(_, _)
RECURSIVE InlineChildren(_, _)
RECURSIVE node_to_lines(_, _)
RECURSIVE BlockChildren(_, _)

\* for child in cs { collect_inline_spans(child, spans, style) }
InlineChildren(cs, style) ==
    IF cs = <<>> THEN <<>>
    ELSE collect_inline_spans(Head(cs), style) \o InlineChildren(Tail(cs), style)

\* (variant: Emphasis starts from the default style)
collect_inline_spans_flat(node, base_style) ==
    CASE node.type = "Text" ->
           <<SpanStyled(node.value, base_style)>>
      [] node.type = "Strong" ->
           InlineChildren(node.children, add_modifier(base_style, "BOLD"))
      [] node.type = "Emphasis" ->
           InlineChildren(node.children, add_modifier(StyleDefault, "ITALIC"))
      [] node.type = "InlineCode" ->
           <<SpanStyled(node.value, add_modifier(fg(base_style, "Green"), "BOLD"))>>
      [] node.type = "Link" ->
           InlineChildren(node.children,
                          add_modifier(fg(base_style, "Blue"), "UNDERLINED"))
      [] node.type = "Break" ->
           <<SpanRaw("\n")>>
      [] OTHER ->
           InlineChildren(children(node), base_style)

\* the spans collect_inline_spans appends for node
collect_inline_spans(node, base_style) ==
    CASE node.type = "Text" ->
           <<SpanStyled(node.value, base_style)>>
      [] node.type = "Strong" ->
           InlineChildren(node.children, add_modifier(base_style, "BOLD"))
      [] node.type = "Emphasis" ->
           InlineChildren(node.children, add_modifier(base_style, "ITALIC"))
      [] node.type = "InlineCode" ->
           <<SpanStyled(node.value, add_modifier(fg(base_style, "Green"), "BOLD"))>>
      [] node.type = "Link" ->
           InlineChildren(node.children,
                          add_modifier(fg(base_style, "Blue"), "UNDERLINED"))
      [] node.type = "Break" ->
           <<SpanRaw("\n")>>
      [] OTHER ->
           InlineChildren(children(node), base_style)

\* for child in cs { node_to_lines(child, lines, style) }
BlockChildren(cs, style) ==
    IF cs = <<>> THEN <<>>
    ELSE node_to_lines(Head(cs), style) \o BlockChildren(Tail(cs), style)

\* (variant: a blank line after every item)
RECURSIVE ListItemLines_blank(_, _, _)
ListItemLines_blank(list, i, style) ==
    IF i > Len(list.children) THEN <<>>
    ELSE LET child  == list.children[i]
             bullet == IF list.ordered THEN ToString(i) \o ". " ELSE "- "
         IN  (IF child.type = "ListItem"
              THEN <<LineFrom(<<SpanRaw(bullet)>>
                              \o InlineChildren(child.children, style)),
                     LineRaw("")>>
              ELSE <<>>)
             \o ListItemLines_blank(list, i + 1, style)

\* the item lines of a List: one per ListItem child, numbered by position
RECURSIVE ListItemLines(_, _, _)
ListItemLines(list, i, style) ==
    IF i > Len(list.children) THEN <<>>
    ELSE LET child  == list.children[i]
             bullet == IF list.ordered THEN ToString(i) \o ". " ELSE "- "
         IN  (IF child.type = "ListItem"
              THEN <<LineFrom(<<SpanRaw(bullet)>>
                              \o InlineChildren(child.children, style))>>
              ELSE <<>>)
             \o ListItemLines(list, i + 1, style)

\* (variant: a line without spans is passed on as it is)
RECURSIVE QuoteLines_skip(_)
QuoteLines_skip(quote_lines) ==
    IF quote_lines = <<>> THEN <<>>
    ELSE <<IF Head(quote_lines).spans = <<>> THEN Head(quote_lines)
           ELSE LineFrom(<<SpanRaw("> ")>> \o Head(quote_lines).spans)>>
         \o QuoteLines_skip(Tail(quote_lines))

\* "> " put before the spans of every line of a rendered Blockquote child
RECURSIVE QuoteLines(_)
QuoteLines(quote_lines) ==
    IF quote_lines = <<>> THEN <<>>
    ELSE <<LineFrom(<<SpanRaw("> ")>> \o Head(quote_lines).spans)>>
         \o QuoteLines(Tail(quote_lines))

RECURSIVE QuoteChildren(_)
QuoteChildren(cs) ==
    IF cs = <<>> THEN <<>>
    ELSE QuoteLines(node_to_lines(Head(cs),
                                  add_modifier(fg(StyleDefault, "Yellow"), "ITALIC")))
         \o QuoteChildren(Tail(cs))

\* str::lines: the text cut at every "\n"; a last line that is empty is not a
\* line
RECURSIVE str_lines(_, _)
str_lines(chars, line) ==
    IF chars = <<>> THEN (IF line = "" THEN <<>> ELSE <<line>>)
    ELSE IF Head(chars) = "\n" THEN <<line>> \o str_lines(Tail(chars), "")
    ELSE str_lines(Tail(chars), line \o Head(chars))

RECURSIVE CodeLines(_, _)
CodeLines(value, code_style) ==
    IF value = <<>> THEN <<>>
    ELSE <<LineStyled(Head(value), code_style)>> \o CodeLines(Tail(value), code_style)

\* the lines node_to_lines appends for node
node_to_lines(node, style) ==
    CASE node.type = "Root" ->
           BlockChildren(node.children, style)
      [] node.type = "Heading" ->
           LET heading_style == add_modifier(fg(StyleDefault, "Cyan"), "BOLD")
               prefix        == repeat("#", node.depth) \o " "
           IN  <<LineFrom(<<SpanStyled(prefix, heading_style)>>
                          \o InlineChildren(node.children, heading_style)),
                 LineRaw("")>>
      [] node.type = "Paragraph" ->
           <<LineFrom(InlineChildren(node.children, style)), LineRaw("")>>
      [] node.type = "List" ->
           ListItemLines(node, 1, style) \o <<LineRaw("")>>
      [] node.type = "Code" ->
           LET code_style == fg(StyleDefault, "Gray")
           IN  <<LineStyled(IF node.lang # None THEN Fence \o node.lang[1] ELSE Fence,
                            code_style)>>
               \o CodeLines(str_lines(node.value, ""), code_style)
               \o <<LineStyled(Fence, code_style), LineRaw("")>>
      [] node.type = "Blockquote" ->
           QuoteChildren(node.children)
      [] node.type = "ThematicBreak" ->
           <<LineRaw(repeat("-", RuleWidth)), LineRaw("")>>
      [] OTHER ->
           BlockChildren(children(node), style)

\* ------------------------------------------------------------ segmentation
\* (variant: a depth-3 heading splits too)
starts_slide_depth3(current_slide_content, node) ==
    /\ current_slide_content # <<>>
    /\ node.type = "Heading"
    /\ node.depth <= 3

\* (variant: the test for a non-empty slide is missing)
starts_slide_unguarded(current_slide_content, node) ==
    /\ node.type = "Heading"
    /\ (node.depth = 1 \/ node.depth = 2)

\* the test of the loop body: the slide being collected is closed before node
starts_slide(current_slide_content, node) ==
    /\ current_slide_content # <<>>
    /\ node.type = "Heading"
    /\ (node.depth = 1 \/ node.depth = 2)

\* (variant: the heading that closes a slide is not carried into the next)
RECURSIVE load_loop_drop(_, _, _)
load_loop_drop(nodes, current_slide_content, slides_acc) ==
    IF nodes = <<>>
    THEN Append(slides_acc, current_slide_content)
    ELSE LET node  == Head(nodes)
             split == starts_slide(current_slide_content, node)
         IN  load_loop_drop(Tail(nodes),
                            IF split THEN <<>> ELSE Append(current_slide_content, node),
                            IF split THEN Append(slides_acc, current_slide_content)
                                     ELSE slides_acc)

\* the loop over the top-level nodes, then the push of the last slide
RECURSIVE load_loop(_, _, _)
load_loop(nodes, current_slide_content, slides_acc) ==
    IF nodes = <<>>
    THEN Append(slides_acc, current_slide_content)
    ELSE LET node  == Head(nodes)
             split == starts_slide(current_slide_content, node)
         IN  load_loop(Tail(nodes),
                       Append(IF split THEN <<>> ELSE current_slide_content, node),
                       IF split THEN Append(slides_acc, current_slide_content)
                                ELSE slides_acc)

load_slides(nodes) == load_loop(nodes, <<>>, <<>>)

\* --------------------------------------------------- tui_scrollview state
Position(x, y) == [x |-> x, y |-> y]
Size(w, h)     == [width |-> w, height |-> h]

\* ScrollViewState::default()
ScrollViewStateDefault ==
    [offset |-> Position(0, 0), size |-> None, page_size |-> None]

set_offset(st, offset) == [st EXCEPT !.offset = offset]

scroll_down(st) == [st EXCEPT !.offset.y = saturating_add(@, 1)]
scroll_up(st)   == [st EXCEPT !.offset.y = saturating_sub(@, 1)]

\* one page is the height of the area of the last render, 1 when there was
\* none; consecutive pages overlap by one row
page_height(st) == IF st.page_size = None THEN 1 ELSE st.page_size[1].height

\* (variant: no overlap between pages)
scroll_page_down_full(st) ==
    [st EXCEPT !.offset.y = saturating_add(@, page_height(st))]

scroll_page_down(st) ==
    [st EXCEPT !.offset.y = saturating_sub(saturating_add(@, page_height(st)), 1)]
scroll_page_up(st) ==
    [st EXCEPT !.offset.y = saturating_sub(saturating_add(@, 1), page_height(st))]

\* (variant: the recorded content height is not used)
scroll_to_bottom_max(st) == [st EXCEPT !.offset.y = U16Max]

\* the offset is left for the next render to pull back into the content
scroll_to_bottom(st) ==
    [st EXCEPT !.offset.y = IF st.size = None THEN U16Max
                            ELSE saturating_sub(st.size[1].height, 1)]

\* ScrollView::render on a buffer of buf_size into area: clamps the offset and
\* records both sizes
render_stateful_widget(st, buf_size, area) ==
    LET max_x_offset == saturating_sub(buf_size.width, saturating_sub(area.width, 1))
        max_y_offset == saturating_sub(buf_size.height, saturating_sub(area.height, 1))
    IN  [offset    |-> Position(Min(st.offset.x, max_x_offset),
                                Min(st.offset.y, max_y_offset)),
         size      |-> Some(buf_size),
         page_size |-> Some(area)]

\* ------------------------------------------------------------------- state
VARIABLES
    pc,                 \* "load" before load_slides and App::new, "run" after
    document,           \* the top-level nodes of the parsed file
    slides,             \* App.slides
    current_slide,      \* App.current_slide
    scroll_view_state,  \* App.scroll_view_state
    viewport_height,    \* App.viewport_height
    last,               \* the last step taken and the App fields before it
    draws,              \* height: the rows of the most recent draw, if any;
                        \* fresh: no draw since scroll_view_state was made
    run,                \* the slide commands executed in a row, with
                        \* current_slide and the offset before the first
    call,               \* a call of a function on its own: name and arguments
    ret                 \* what the call returned, None before it returns

nav  == <<pc, document, slides, current_slide, scroll_view_state,
          viewport_height, last, draws, run>>
pure == <<call, ret>>
vars == <<pc, document, slides, current_slide, scroll_view_state,
          viewport_height, last, draws, run, call, ret>>

\* the top-level nodes documents are built from
NodePool ==
    { Heading(1, <<Text("A")>>),
      Heading(2, <<Text("B")>>),
      Heading(3, <<Text("C")>>),
      Paragraph(<<Text("x")>>),
      List(FALSE, <<ListItem(<<Paragraph(<<Text("a")>>)>>),
                    ListItem(<<Paragraph(<<Text("b")>>)>>)>>) }

RECURSIVE SeqsUpTo(_, _)
SeqsUpTo(S, n) ==
    IF n = 0 THEN {<<>>}
    ELSE LET shorter == SeqsUpTo(S, n - 1)
         IN  shorter \cup {Append(q, e) : q \in shorter, e \in S}

Documents == SeqsUpTo(NodePool, MaxLen)

\* the documents that are presented: to navigation and drawing every heading
\* of depth 1 or 2 is alike, and so is every node that is no such heading
DeckPool == {n \in NodePool : n.type \in {"Paragraph", "List"} \/ n.depth = 1}
Decks    == SeqsUpTo(DeckPool, MaxDeck)

Before(cmd) ==
    [cmd |-> cmd, current_slide |-> current_slide,
     scroll_view_state |-> scroll_view_state, viewport_height |-> viewport_height]

NoRun  == [from |-> 0, y0 |-> 0, cmds |-> <<>>]
NoCall == [fn |-> "none"]

\* the run of slide commands once cmd has been executed
RunWith(cmd) ==
    IF run.cmds = <<>> \/ Len(run.cmds) >= MaxRun
    THEN [from |-> current_slide, y0 |-> scroll_view_state.offset.y, cmds |-> <<cmd>>]
    ELSE [run EXCEPT !.cmds = Append(@, cmd)]

InitOn(docs) ==
    /\ pc = "load"
    /\ document \in docs
    /\ slides = <<>>
    /\ current_slide = 0
    /\ scroll_view_state = ScrollViewStateDefault
    /\ viewport_height = 0
    /\ last = [cmd |-> "none", current_slide |-> 0,
               scroll_view_state |-> ScrollViewStateDefault, viewport_height |-> 0]
    /\ draws = [height |-> None, fresh |-> TRUE]
    /\ run = NoRun

Init == InitOn(Decks) /\ call = NoCall /\ ret = None

\* App::new(load_slides(path))
Load ==
    /\ pc = "load"
    /\ pc' = "run"
    /\ slides' = load_slides(document)
    /\ current_slide' = 0
    /\ scroll_view_state' = ScrollViewStateDefault
    /\ viewport_height' = 0
    /\ last' = Before("new")
    /\ draws' = [height |-> None, fresh |-> TRUE]
    /\ run' = NoRun
    /\ UNCHANGED <<document, pure>>

\* the scroll offsets the model follows: a step is taken when it lands near an
\* end of the u16 range, or moves down from an offset within the content
Tracked(y) == y <= MaxOffset \/ y >= U16Max - MaxOffset
Followed(old, new) ==
    Tracked(new.offset.y) \/ (new.offset.y <= old.offset.y /\ old.offset.y < U16Max - MaxOffset)

\* a command that touches the scroll state only
Scroll(cmd, st) ==
    /\ pc = "run"
    /\ scroll_view_state' = st
    /\ last' = Before(cmd)
    /\ run' = NoRun
    /\ UNCHANGED <<pc, document, slides, current_slide, viewport_height, draws, pure>>

ScrollDown ==
    /\ Followed(scroll_view_state, scroll_down(scroll_view_state))
    /\ Scroll("ScrollDown", scroll_down(scroll_view_state))

ScrollUp ==
    /\ Followed(scroll_view_state, scroll_up(scroll_view_state))
    /\ Scroll("ScrollUp", scroll_up(scroll_view_state))

PageDown ==
    /\ Followed(scroll_view_state, scroll_page_down(scroll_view_state))
    /\ Scroll("PageDown", scroll_page_down(scroll_view_state))

PageUp ==
    /\ Followed(scroll_view_state, scroll_page_up(scroll_view_state))
    /\ Scroll("PageUp", scroll_page_up(scroll_view_state))

\* (variant: the height is not halved)
half_page_full == viewport_height

half_page == viewport_height \div 2

HalfPageDown ==
    LET offset == scroll_view_state.offset
        st     == set_offset(scroll_view_state,
                             [offset EXCEPT !.y = saturating_add(@, half_page)])
    IN  Followed(scroll_view_state, st) /\ Scroll("HalfPageDown", st)

HalfPageUp ==
    LET offset == scroll_view_state.offset
        st     == set_offset(scroll_view_state,
                             [offset EXCEPT !.y = saturating_sub(@, half_page)])
    IN  Followed(scroll_view_state, st) /\ Scroll("HalfPageUp", st)

\* (variant: the jump also returns to the first slide)
JumpToTop_first ==
    /\ pc = "run"
    /\ scroll_view_state' = [scroll_view_state EXCEPT !.offset.y = 0]
    /\ current_slide' = 0
    /\ last' = Before("JumpToTop")
    /\ run' = NoRun
    /\ UNCHANGED <<pc, document, slides, viewport_height, draws, pure>>

JumpToTop ==
    LET offset == scroll_view_state.offset
    IN  Scroll("JumpToTop",
               set_offset(scroll_view_state, [offset EXCEPT !.y = 0]))

JumpToBottom == Scroll("JumpToBottom", scroll_to_bottom(scroll_view_state))

\* (variant: the bound is tested with <=)
can_go_next_off == current_slide + 1 <= Len(slides)

\* (variant: the first slide cannot be gone back to)
can_go_previous_off == current_slide > 1

can_go_next     == current_slide + 1 < Len(slides)
can_go_previous == current_slide > 0

\* (variant: the scroll state is reset whether or not the slide changes)
NextSlide_reset ==
    /\ pc = "run"
    /\ current_slide' = IF can_go_next THEN current_slide + 1 ELSE current_slide
    /\ scroll_view_state' = ScrollViewStateDefault
    /\ draws' = [draws EXCEPT !.fresh = TRUE]
    /\ last' = Before("NextSlide")
    /\ run' = RunWith("NextSlide")
    /\ UNCHANGED <<pc, document, slides, viewport_height, pure>>

\* (variant: the scroll state is kept when the slide changes)
NextSlide_keep ==
    /\ pc = "run"
    /\ current_slide' = IF can_go_next THEN current_slide + 1 ELSE current_slide
    /\ last' = Before("NextSlide")
    /\ run' = RunWith("NextSlide")
    /\ UNCHANGED <<pc, document, slides, viewport_height, scroll_view_state, draws, pure>>

NextSlide ==
    /\ pc = "run"
    /\ IF can_go_next
       THEN /\ current_slide' = current_slide + 1
            /\ scroll_view_state' = ScrollViewStateDefault
            /\ draws' = [draws EXCEPT !.fresh = TRUE]
       ELSE UNCHANGED <<current_slide, scroll_view_state, draws>>
    /\ last' = Before("NextSlide")
    /\ run' = RunWith("NextSlide")
    /\ UNCHANGED <<pc, document, slides, viewport_height, pure>>

PreviousSlide ==
    /\ pc = "run"
    /\ IF can_go_previous
       THEN /\ current_slide' = current_slide - 1
            /\ scroll_view_state' = ScrollViewStateDefault
            /\ draws' = [draws EXCEPT !.fresh = TRUE]
       ELSE UNCHANGED <<current_slide, scroll_view_state, draws>>
    /\ last' = Before("PreviousSlide")
    /\ run' = RunWith("PreviousSlide")
    /\ UNCHANGED <<pc, document, slides, viewport_height, pure>>

\* the lines of a slide: every node rendered under the default style
all_lines(slide) == BlockChildren(slide, StyleDefault)

\* render(app, frame) on a terminal of width x height cells
Draw(width, height) ==
    /\ pc = "run"
    /\ viewport_height' = height
    /\ IF current_slide < Len(slides)
       THEN LET num_lines == Len(all_lines(slides[current_slide + 1])) % (U16Max + 1)
            IN  /\ scroll_view_state' =
                       render_stateful_widget(scroll_view_state,
                                              Size(width, num_lines),
                                              Size(width, height))
                /\ draws' = [height |-> Some(height), fresh |-> FALSE]
       ELSE /\ UNCHANGED scroll_view_state
            /\ draws' = [draws EXCEPT !.height = Some(height)]
    /\ last' = Before("Draw")
    /\ run' = NoRun
    /\ UNCHANGED <<pc, document, slides, current_slide, pure>>

Next ==
    \/ Load
    \/ ScrollDown
    \/ ScrollUp
    \/ PageDown
    \/ PageUp
    \/ HalfPageDown
    \/ HalfPageUp
    \/ JumpToTop
    \/ JumpToBottom
    \/ NextSlide
    \/ PreviousSlide
    \/ \E width \in 1..MaxWidth, height \in 0..MaxHeight : Draw(width, height)

Spec == Init /\ [][Next]_vars

\* segmentation alone, over the larger set of documents
InitLoad == InitOn(Documents) /\ call = NoCall /\ ret = None
NextLoad == Load
SpecLoad == InitLoad /\ [][NextLoad]_vars

\* ---------------------------------------------------------- rendering alone
heading_style == add_modifier(fg(StyleDefault, "Cyan"), "BOLD")
quote_style   == add_modifier(fg(StyleDefault, "Yellow"), "ITALIC")

\* inline trees: a leaf inside up to n of Strong, Emphasis, Link, alone or
\* followed by a Text
RECURSIVE InlineTrees(_)
InlineTrees(n) ==
    IF n = 0 THEN {Text("t"), InlineCode("c"), Break}
    ELSE LET inner == InlineTrees(n - 1)
         IN  inner
             \cup {Strong(<<c>>) : c \in inner}
             \cup {Emphasis(<<c>>) : c \in inner}
             \cup {Link(<<c>>) : c \in inner}
             \cup {Strong(<<c, Text("u")>>) : c \in inner}
             \cup {Emphasis(<<c, Text("u")>>) : c \in inner}
             \cup {Link(<<c, Text("u")>>) : c \in inner}

Inlines == InlineTrees(MaxNest)

item_a == ListItem(<<Paragraph(<<Text("a")>>)>>)
item_b == ListItem(<<Paragraph(<<Text("b")>>)>>)

\* list items: plain, with emphasis, with a code block, with a nested list
ListItems ==
    { item_a, item_b,
      ListItem(<<Paragraph(<<Text("a"), Strong(<<Text("t")>>)>>)>>),
      ListItem(<<Paragraph(<<Text("b")>>), Code(None, <<"x">>)>>),
      ListItem(<<Paragraph(<<Text("b")>>), List(FALSE, <<item_a>>)>>) }

Codes ==
    {Code(l, v) : l \in {None, Some("rs")},
                  v \in {<<>>, <<"x">>, <<"x", "\n">>, <<"x", "\n", "y">>,
                         <<"x", "\n", "\n", "y">>}}

\* the blocks the containers are filled with
CoreBlocks ==
    { Heading(2, <<Text("S2")>>),
      Paragraph(<<Link(<<Text("t")>>)>>),
      Paragraph(<<Strong(<<Link(<<Text("t")>>), Text("u")>>), InlineCode("c")>>),
      List(FALSE, <<item_a, item_b>>),
      Code(None, <<"x", "\n", "y">>),
      ThematicBreak,
      Text("t") }

RECURSIVE Quotes(_)
Quotes(n) ==
    IF n = 0 THEN CoreBlocks
    ELSE LET inner == Quotes(n - 1)
         IN  inner
             \cup {Blockquote(<<b>>) : b \in inner}
             \cup {Blockquote(<<b, c>>) : b \in inner, c \in CoreBlocks}

Blocks ==
    {Heading(d, <<i>>) : d \in 1..3, i \in InlineTrees(1)}
    \cup {Paragraph(<<i>>) : i \in Inlines}
    \cup {List(o, items) : o \in BOOLEAN, items \in SeqsUpTo(ListItems, 2)}
    \cup Codes
    \cup Quotes(MaxQuote)
    \cup {Root(<<b, c>>) : b \in CoreBlocks, c \in CoreBlocks}

RenderCalls ==
    {[fn |-> "node_to_lines", node |-> n, style |-> st] :
        n \in Blocks, st \in {StyleDefault, quote_style}}
    \cup {[fn |-> "collect_inline_spans", node |-> n, style |-> st] :
        n \in Inlines, st \in {StyleDefault, heading_style, quote_style}}

InitRender ==
    /\ InitOn({<<>>})
    /\ call \in RenderCalls
    /\ ret = None

\* node_to_lines(node, &mut lines, style) on an empty lines
Render ==
    /\ call.fn = "node_to_lines"
    /\ ret = None
    /\ ret' = Some(node_to_lines(call.node, call.style))
    /\ UNCHANGED <<nav, call>>

\* collect_inline_spans(node, &mut spans, base_style) on an empty spans
Collect ==
    /\ call.fn = "collect_inline_spans"
    /\ ret = None
    /\ ret' = Some(collect_inline_spans(call.node, call.style))
    /\ UNCHANGED <<nav, call>>

NextRender == Render \/ Collect
SpecRender == InitRender /\ [][NextRender]_vars

\* ------------------------------------------------------------- key bindings
\* crossterm KeyCode: Char(c), the keys keycode_to_string names, and the rest
Char(c)   == [kind |-> "Char", c |-> c]
Key(kind) == [kind |-> kind, c |-> ""]

NamedKeys == {"Up", "Down", "Left", "Right", "Enter", "Esc", "Tab", "Backspace"}

\* (variant: Control is not looked at)
keycode_to_string_plain(key_code, modifiers) ==
    IF key_code.kind = "Char" THEN key_code.c
    ELSE IF key_code.kind \in NamedKeys THEN key_code.kind
    ELSE ""

keycode_to_string(key_code, modifiers) ==
    IF key_code.kind # "Char" /\ key_code.kind \notin NamedKeys THEN ""
    ELSE LET base == IF key_code.kind = "Char" THEN key_code.c ELSE key_code.kind
         IN  IF "CONTROL" \in modifiers THEN "C-" \o base
             ELSE IF "ALT" \in modifiers THEN "A-" \o base
             ELSE base

\* Config::default()
ConfigDefault ==
    [keymaps |->
        [scroll_down    |-> <<"j", "Down">>,
         scroll_up      |-> <<"k", "Up">>,
         previous_slide |-> <<"h">>,
         next_slide     |-> <<"l">>,
         page_down      |-> <<"C-f">>,
         page_up        |-> <<"C-b">>,
         half_page_down |-> <<"C-d">>,
         half_page_up   |-> <<"C-u">>,
         jump_to_top    |-> <<"g">>,
         jump_to_bottom |-> <<"G">>]]

\* for binding in bindings { if binding == key_str ... }
binds(bindings, key_str) == \E i \in 1..Len(bindings) : bindings[i] = key_str

get_command(config, key_code, modifiers) ==
    LET key_str == keycode_to_string(key_code, modifiers)
        keymaps == config.keymaps
    IN  IF binds(keymaps.scroll_down, key_str) THEN Some("ScrollDown")
        ELSE IF binds(keymaps.scroll_up, key_str) THEN Some("ScrollUp")
        ELSE IF binds(keymaps.previous_slide, key_str) THEN Some("PreviousSlide")
        ELSE IF binds(keymaps.next_slide, key_str) THEN Some("NextSlide")
        ELSE IF binds(keymaps.page_down, key_str) THEN Some("PageDown")
        ELSE IF binds(keymaps.page_up, key_str) THEN Some("PageUp")
        ELSE IF binds(keymaps.half_page_down, key_str) THEN Some("HalfPageDown")
        ELSE IF binds(keymaps.half_page_up, key_str) THEN Some("HalfPageUp")
        ELSE IF binds(keymaps.jump_to_top, key_str) THEN Some("JumpToTop")
        ELSE IF binds(keymaps.jump_to_bottom, key_str) THEN Some("JumpToBottom")
        ELSE None

\* the match of get_keys_for_command
bindings_of(config, command) ==
    CASE command = "ScrollDown"    -> config.keymaps.scroll_down
      [] command = "ScrollUp"      -> config.keymaps.scroll_up
      [] command = "PreviousSlide" -> config.keymaps.previous_slide
      [] command = "NextSlide"     -> config.keymaps.next_slide
      [] command = "PageDown"      -> config.keymaps.page_down
      [] command = "PageUp"        -> config.keymaps.page_up
      [] command = "HalfPageDown"  -> config.keymaps.half_page_down
      [] command = "HalfPageUp"    -> config.keymaps.half_page_up
      [] command = "JumpToTop"     -> config.keymaps.jump_to_top
      [] command = "JumpToBottom"  -> config.keymaps.jump_to_bottom

get_keys_for_command(config, command) ==
    LET bindings == bindings_of(config, command)
    IN  IF bindings = <<>> THEN None ELSE Some(Head(bindings))

Command ==
    {"ScrollDown", "ScrollUp", "PageDown", "PageUp", "HalfPageDown",
     "HalfPageUp", "JumpToTop", "JumpToBottom", "NextSlide", "PreviousSlide"}

\* the keys pressed: the bound characters, two unbound ones, the named keys
\* and two keys without a name
KeyCodes ==
    {Char(c) : c \in {"j", "k", "h", "l", "f", "b", "d", "u", "g", "G", "q", "x"}}
    \cup {Key(k) : k \in NamedKeys}
    \cup {Key("F1"), Key("PageDown")}
KeyModifiers == SUBSET {"CONTROL", "ALT", "SHIFT"}

KeyCalls ==
    {[fn |-> "get_command", key_code |-> k, modifiers |-> m] :
        k \in KeyCodes, m \in KeyModifiers}
    \cup {[fn |-> "get_keys_for_command", command |-> c] : c \in Command}

InitKeys ==
    /\ InitOn({<<>>})
    /\ call \in KeyCalls
    /\ ret = None

\* Config::default().get_command(key_code, modifiers)
GetCommand ==
    /\ call.fn = "get_command"
    /\ ret = None
    /\ ret' = Some(get_command(ConfigDefault, call.key_code, call.modifiers))
    /\ UNCHANGED <<nav, call>>

\* Config::default().get_keys_for_command(command)
GetKeysForCommand ==
    /\ call.fn = "get_keys_for_command"
    /\ ret = None
    /\ ret' = Some(get_keys_for_command(ConfigDefault, call.command))
    /\ UNCHANGED <<nav, call>>

NextKeys == GetCommand \/ GetKeysForCommand
SpecKeys == InitKeys /\ [][NextKeys]_vars

\* =================================================================== claims
is_h12(node) == node.type = "Heading" /\ (node.depth = 1 \/ node.depth = 2)

RECURSIVE Flatten(_)
Flatten(ss) == IF ss = <<>> THEN <<>> ELSE Head(ss) \o Flatten(Tail(ss))

\* the position in the document of the first node of slide i
RECURSIVE SlideStart(_)
SlideStart(i) == IF i = 1 THEN 1 ELSE SlideStart(i - 1) + Len(slides[i - 1])

FirstPositions == {SlideStart(i) : i \in {j \in 1..Len(slides) : slides[j] # <<>>}}

\* C1: the slides of load_slides, concatenated in order, are the document's
\* top-level nodes: none dropped, duplicated or reordered.
C1_Coverage == pc = "run" => Flatten(slides) = document

C1_Witness ==
    /\ pc = "run"
    /\ Len(document) = MaxLen
    /\ Len(slides) >= 2
    /\ \E p \in 1..Len(document) : document[p].type # "Heading"

\* C2: a node is the first of a slide iff it is the first node of the document
\* or a Heading of depth 1 or 2, so a non-empty document has one slide more
\* than it has depth-1/2 headings after its first node.
C2_SplitRule ==
    pc = "run" =>
        /\ \A p \in 1..Len(document) :
               p \in FirstPositions <=> (p = 1 \/ is_h12(document[p]))
        /\ document # <<>> =>
               Len(slides) =
                   1 + Cardinality({p \in 2..Len(document) : is_h12(document[p])})

C2_Witness ==
    /\ pc = "run"
    /\ Len(document) >= 3
    /\ \E p \in 2..Len(document) : document[p].type = "Heading" /\ document[p].depth = 3
    /\ \E p \in 2..Len(document) : is_h12(document[p])
    /\ Len(slides) = 2

\* C3: load_slides returns at least one slide; a slide is empty only for the
\* empty document, whose result is exactly one empty slide.
C3_NoEmptySlide ==
    pc = "run" =>
        /\ Len(slides) >= 1
        /\ \A i \in 1..Len(slides) : slides[i] = <<>> => document = <<>>
        /\ document = <<>> => slides = << <<>> >>

C3_Witness ==
    /\ pc = "run"
    /\ Len(document) >= 2
    /\ is_h12(document[1])
    /\ is_h12(document[2])
    /\ Len(slides) = 2

\* the state before and after the last step
y_before == last.scroll_view_state.offset.y
y_after  == scroll_view_state.offset.y
did(cmd) == pc = "run" /\ last.cmd = cmd

\* the number of lines the current slide renders to
rendered_line_count == Len(all_lines(slides[current_slide + 1]))

\* the rows of the most recent draw, 0 before the first
drawn_height == IF draws.height = None THEN 0 ELSE draws.height[1]

\* C4: from App::new on, 0 <= current_slide < slides.len() in every state.
C4_IndexInRange == pc = "run" => (0 <= current_slide /\ current_slide < Len(slides))

C4_Witness ==
    /\ did("NextSlide")
    /\ Len(slides) >= 2
    /\ last.current_slide = Len(slides) - 1
    /\ current_slide = Len(slides) - 1

\* C5: NextSlide on the last slide and PreviousSlide on the first change
\* neither current_slide nor the scroll state.
C5_BoundaryNoOp ==
    /\ (did("NextSlide") /\ last.current_slide = Len(slides) - 1) =>
           /\ current_slide = last.current_slide
           /\ scroll_view_state = last.scroll_view_state
    /\ (did("PreviousSlide") /\ last.current_slide = 0) =>
           /\ current_slide = last.current_slide
           /\ scroll_view_state = last.scroll_view_state

C5_Witness ==
    /\ did("NextSlide")
    /\ last.current_slide = Len(slides) - 1
    /\ y_before > 0
    /\ y_after = y_before

\* C6: a NextSlide or PreviousSlide that changes current_slide changes it by
\* one, and leaves the vertical scroll offset at 0.
C6_SlideChangeResetsScroll ==
    /\ (did("NextSlide") /\ current_slide # last.current_slide) =>
           (current_slide = last.current_slide + 1 /\ y_after = 0)
    /\ (did("PreviousSlide") /\ current_slide # last.current_slide) =>
           (current_slide = last.current_slide - 1 /\ y_after = 0)

C6_Witness ==
    /\ did("NextSlide")
    /\ current_slide = last.current_slide + 1
    /\ y_before > 0
    /\ y_after = 0

\* C7: ScrollDown adds one row and ScrollUp takes one away, whatever the
\* length of the content; the offset stops at 0 and at 65535, it never wraps.
C7_ScrollByOne ==
    /\ did("ScrollDown") =>
           y_after = (IF y_before = U16Max THEN U16Max ELSE y_before + 1)
    /\ did("ScrollUp") =>
           y_after = (IF y_before = 0 THEN 0 ELSE y_before - 1)

C7_Witness == did("ScrollDown") /\ y_before = U16Max /\ y_after = U16Max

\* C8: HalfPageDown adds and HalfPageUp takes away floor(viewport_height / 2)
\* rows, stopping at 65535 and at 0, where viewport_height is the height of the
\* most recent draw and 0 before the first; the horizontal offset and
\* current_slide stay.
C8_HalfPage ==
    LET half == drawn_height \div 2
        rest == /\ scroll_view_state.offset.x = last.scroll_view_state.offset.x
                /\ current_slide = last.current_slide
    IN  /\ did("HalfPageDown") =>
               (y_after = (IF y_before + half > U16Max THEN U16Max ELSE y_before + half)
                /\ rest)
        /\ did("HalfPageUp") =>
               (y_after = (IF y_before < half THEN 0 ELSE y_before - half) /\ rest)

C8_Witness ==
    /\ did("HalfPageDown")
    /\ drawn_height = 3
    /\ y_before > 0
    /\ y_after = y_before + 1

\* C9 as claimed: PageDown adds and PageUp takes away one full viewport
\* height, in every state.
C9_FullPage ==
    /\ did("PageDown") =>
           y_after = (IF y_before + viewport_height > U16Max THEN U16Max
                      ELSE y_before + viewport_height)
    /\ did("PageUp") =>
           y_after = (IF y_before < viewport_height THEN 0
                      ELSE y_before - viewport_height)

\* C9 as amended: with p the height of the last draw since the scroll state was
\* made (by App::new or a slide change) and 1 when there was none, PageDown
\* sets the offset to (y + p, stopping at 65535) - 1 and PageUp to
\* (y + 1, stopping at 65535) - p, both stopping at 0.
C9_PageWithOverlap ==
    LET p == IF draws.fresh THEN 1 ELSE drawn_height
        up(a, b)   == IF a + b > U16Max THEN U16Max ELSE a + b
        down(a, b) == IF a < b THEN 0 ELSE a - b
    IN  /\ did("PageDown") => y_after = down(up(y_before, p), 1)
        /\ did("PageUp")   => y_after = down(up(y_before, 1), p)

C9_Witness ==
    /\ did("PageDown")
    /\ ~draws.fresh
    /\ drawn_height >= 3
    /\ y_before > 0
    /\ y_after = y_before + drawn_height - 1

\* C10 as claimed: JumpToBottom sets the offset to
\* max(0, rendered_line_count - viewport_height), JumpToTop sets it to 0, and
\* both leave current_slide.
C10_BottomIsLastPage ==
    /\ did("JumpToBottom") =>
           /\ y_after = (IF rendered_line_count < viewport_height THEN 0
                         ELSE rendered_line_count - viewport_height)
           /\ current_slide = last.current_slide
    /\ did("JumpToTop") => (y_after = 0 /\ current_slide = last.current_slide)

\* C10 as amended: JumpToBottom sets the offset to rendered_line_count - 1
\* (stopping at 0) when the slide was drawn since the scroll state was made, and
\* to 65535 when it was not, leaving it to the next draw to bring the offset
\* back into the content; JumpToTop sets the offset to 0; both commands leave
\* current_slide.
C10_BottomIsLastLine ==
    /\ did("JumpToBottom") =>
           /\ y_after = (IF draws.fresh THEN U16Max
                         ELSE IF rendered_line_count = 0 THEN 0
                         ELSE rendered_line_count - 1)
           /\ current_slide = last.current_slide
    /\ did("JumpToTop") => (y_after = 0 /\ current_slide = last.current_slide)

C10_Witness ==
    /\ did("JumpToBottom")
    /\ ~draws.fresh
    /\ rendered_line_count > drawn_height
    /\ drawn_height >= 2
    /\ y_after = rendered_line_count - 1

\* the commands that scroll or jump within a slide
ScrollCommands ==
    {"ScrollDown", "ScrollUp", "PageDown", "PageUp", "HalfPageDown",
     "HalfPageUp", "JumpToTop", "JumpToBottom"}
Commands == Command

\* C16: no scroll or jump command changes current_slide, and no command
\* changes slides or viewport_height.
C16_Frame ==
    [][pc = "run" =>
          /\ last'.cmd \in ScrollCommands => current_slide' = current_slide
          /\ last'.cmd \in Commands =>
                 (slides' = slides /\ viewport_height' = viewport_height)]_vars

C16_Witness ==
    /\ did("JumpToTop")
    /\ current_slide > 0
    /\ viewport_height > 0
    /\ y_before > 0
    /\ y_after = 0

\* the run of slide commands is cmd, one or more times
only(cmd) == run.cmds # <<>> /\ \A i \in 1..Len(run.cmds) : run.cmds[i] = cmd

\* C17: k NextSlide in a row from slide i of n end on slide min(i + k, n - 1),
\* so n - 1 of them end on the last slide; k PreviousSlide end on max(i - k, 0);
\* a NextSlide that moved, then PreviousSlide, ends on slide i with offset 0.
C17_Repeated ==
    LET n == Len(slides)
        k == Len(run.cmds)
        i == run.from
    IN  pc = "run" =>
          /\ only("NextSlide") =>
                 current_slide = (IF i + k < n - 1 THEN i + k ELSE n - 1)
          /\ (only("NextSlide") /\ k >= n - 1) => current_slide = n - 1
          /\ only("PreviousSlide") =>
                 current_slide = (IF i - k > 0 THEN i - k ELSE 0)
          /\ (run.cmds = <<"NextSlide", "PreviousSlide">> /\ i + 1 < n) =>
                 (current_slide = i /\ y_after = 0)

C17_Witness ==
    /\ pc = "run"
    /\ run.cmds = <<"NextSlide", "PreviousSlide">>
    /\ run.from + 1 < Len(slides)
    /\ run.y0 > 0
    /\ current_slide = run.from
    /\ y_after = 0

\* ------------------------------------------------------- rendering claims
returned(fn) == call.fn = fn /\ ret # None

\* the Text, InlineCode and Break leaves below node in document order, each
\* with the types of the nodes above it
RECURSIVE Leaves(_, _)
RECURSIVE LeavesOf(_, _)
Leaves(node, above) ==
    IF node.type \in {"Text", "InlineCode", "Break"}
    THEN <<[type |-> node.type, value |-> node.value, above |-> above]>>
    ELSE LeavesOf(node.children, above \cup {node.type})
LeavesOf(cs, above) ==
    IF cs = <<>> THEN <<>> ELSE Leaves(Head(cs), above) \o LeavesOf(Tail(cs), above)

\* span shows the Text leaf with everything base and the nodes above it ask for
ShowsText(span, leaf, base) ==
    /\ span.content = leaf.value
    /\ base.mods \subseteq span.style.mods
    /\ "Strong" \in leaf.above => "BOLD" \in span.style.mods
    /\ "Emphasis" \in leaf.above => "ITALIC" \in span.style.mods
    /\ "Link" \in leaf.above =>
           ("UNDERLINED" \in span.style.mods /\ span.style.fg = "Blue")

\* C11: a Text span carries BOLD under a Strong, ITALIC under an Emphasis,
\* underline and the link colour under a Link, whatever the nesting order, on
\* top of the modifiers of the base style; a Link in a Blockquote gives such
\* spans on a line that begins with "> ".
C11_StylesAccumulate ==
    /\ returned("collect_inline_spans") =>
           LET spans  == ret[1]
               leaves == Leaves(call.node, {})
           IN  /\ Len(spans) = Len(leaves)
               /\ \A j \in 1..Len(leaves) :
                      leaves[j].type = "Text" =>
                          ShowsText(spans[j], leaves[j], call.style)
    /\ ( /\ returned("node_to_lines")
         /\ call.node.type = "Blockquote"
         /\ call.node.children[1].type = "Paragraph" ) =>
           LET spans  == ret[1][1].spans
               leaves == LeavesOf(call.node.children[1].children, {})
           IN  /\ Len(spans) = 1 + Len(leaves)
               /\ spans[1] = SpanRaw("> ")
               /\ \A j \in 1..Len(leaves) :
                      leaves[j].type = "Text" =>
                          ShowsText(spans[j + 1], leaves[j], quote_style)

C11_Witness ==
    /\ returned("collect_inline_spans")
    /\ call.node = Emphasis(<<Strong(<<Text("t")>>), Text("u")>>)
    /\ call.style = quote_style
    /\ ret[1][1].style.mods = {"ITALIC", "BOLD"}
    /\ ret[1][2].style.mods = {"ITALIC"}

\* the texts held by the Text, InlineCode and Code nodes of a tree
RECURSIVE Contents(_)
RECURSIVE ContentsOf(_)
Contents(node) ==
    CASE node.type \in {"Text", "InlineCode"} -> {node.value}
      [] node.type = "Code" ->
           LET ls == str_lines(node.value, "")
           IN  {ls[i] : i \in 1..Len(ls)} \ {""}
      [] OTHER -> ContentsOf(node.children)
ContentsOf(cs) ==
    IF cs = <<>> THEN {} ELSE Contents(Head(cs)) \cup ContentsOf(Tail(cs))

\* the texts of the spans of lines
Shown(lines) ==
    UNION {{lines[i].spans[j].content : j \in 1..Len(lines[i].spans)} :
              i \in 1..Len(lines)}

\* C12: the text of every Text, InlineCode and Code node of a tree is in the
\* lines node_to_lines returns for it.
C12_NothingDropped ==
    returned("node_to_lines") => Contents(call.node) \subseteq Shown(ret[1])

blank(line) == line.spans = <<>>

RECURSIVE LinesOfEach(_, _)
LinesOfEach(cs, style) ==
    IF cs = <<>> THEN <<>>
    ELSE <<node_to_lines(Head(cs), style)>> \o LinesOfEach(Tail(cs), style)

\* C13: the lines of each block variant: Heading and Paragraph a content line
\* and a blank; a List of n items n lines, numbered or bulleted, and one blank;
\* Code fence, source lines, fence, blank; ThematicBreak a rule of 40 columns
\* and a blank; Root the lines of its children in order.
C13_LinesPerBlock ==
    returned("node_to_lines") =>
        LET node  == call.node
            lines == ret[1]
            n     == Len(node.children)
        IN  /\ node.type = "Heading" =>
                   /\ Len(lines) = 2
                   /\ lines[1].spans[1].content =
                          (CASE node.depth = 1 -> "# "
                             [] node.depth = 2 -> "## "
                             [] node.depth = 3 -> "### ")
                   /\ Len(lines[1].spans) = 1 + Len(LeavesOf(node.children, {}))
                   /\ blank(lines[2])
            /\ node.type = "Paragraph" =>
                   /\ Len(lines) = 2
                   /\ Len(lines[1].spans) = Len(LeavesOf(node.children, {}))
                   /\ blank(lines[2])
            /\ node.type = "List" =>
                   /\ Len(lines) = n + 1
                   /\ \A i \in 1..n :
                          lines[i].spans[1] =
                              SpanRaw(IF node.ordered THEN ToString(i) \o ". " ELSE "- ")
                   /\ blank(lines[n + 1])
            /\ node.type = "Code" =>
                   LET source == str_lines(node.value, "")
                       k      == Len(source)
                   IN  /\ Len(lines) = k + 3
                       /\ lines[1].spans =
                              <<SpanRaw(IF node.lang = None THEN Fence
                                        ELSE Fence \o node.lang[1])>>
                       /\ \A i \in 1..k :
                              lines[i + 1].spans =
                                  (IF source[i] = "" THEN <<>> ELSE <<SpanRaw(source[i])>>)
                       /\ lines[k + 2].spans = <<SpanRaw(Fence)>>
                       /\ blank(lines[k + 3])
            /\ node.type = "ThematicBreak" =>
                   /\ Len(lines) = 2
                   /\ Len(lines[1].spans) = 1
                   /\ Len(lines[1].spans[1].content) = 40
                   /\ blank(lines[2])
            /\ node.type = "Root" =>
                   lines = Flatten(LinesOfEach(node.children, call.style))
            /\ node = Root(<<Heading(2, <<Text("S2")>>), List(FALSE, <<item_a, item_b>>)>>) =>
                   /\ Len(lines) = 5
                   /\ lines[1].spans = <<SpanStyled("## ", heading_style),
                                         SpanStyled("S2", heading_style)>>
                   /\ blank(lines[2])
                   /\ lines[3].spans = <<SpanRaw("- "), SpanStyled("a", call.style)>>
                   /\ lines[4].spans = <<SpanRaw("- "), SpanStyled("b", call.style)>>
                   /\ blank(lines[5])

C13_Witness ==
    /\ returned("node_to_lines")
    /\ call.node = Root(<<Heading(2, <<Text("S2")>>), List(FALSE, <<item_a, item_b>>)>>)
    /\ call.style = StyleDefault
    /\ Len(ret[1]) = 5

\* C15: a Blockquote's lines are the lines of its children, in order, each
\* with the span "> " put first, the blank ones too; no line is added or
\* removed; a Blockquote in a Blockquote gives lines with two such spans.
C15_QuotePrefix ==
    (returned("node_to_lines") /\ call.node.type = "Blockquote") =>
        LET lines == ret[1]
            cs    == call.node.children
            inner == Flatten(LinesOfEach(cs, quote_style))
            under == Flatten(LinesOfEach(cs, call.style))
        IN  /\ Len(lines) = Len(inner)
            /\ Len(lines) = Len(under)
            /\ \A i \in 1..Len(lines) :
                   lines[i].spans = <<SpanRaw("> ")>> \o inner[i].spans
            /\ cs[1].type = "Blockquote" =>
                   \A i \in 1..Len(node_to_lines(cs[1], quote_style)) :
                       /\ Len(lines[i].spans) >= 2
                       /\ lines[i].spans[1] = SpanRaw("> ")
                       /\ lines[i].spans[2] = SpanRaw("> ")

C15_Witness ==
    /\ returned("node_to_lines")
    /\ call.node = Blockquote(<<Blockquote(<<Paragraph(<<Link(<<Text("t")>>)>>)>>)>>)
    /\ Len(ret[1]) = 2
    /\ ret[1][2].spans = <<SpanRaw("> "), SpanRaw("> ")>>

\* ----------------------------------------------------- key binding claims
\* the string form of a key: its character or name, with "C-" before it when
\* Control is held and "A-" when only Alt is; a key without a name has none
StringForm(key_code, modifiers) ==
    LET name == CASE key_code.kind = "Char" -> Some(key_code.c)
                  [] key_code.kind \in NamedKeys -> Some(key_code.kind)
                  [] OTHER -> None
    IN  CASE name = None -> None
          [] "CONTROL" \in modifiers -> Some("C-" \o name[1])
          [] "ALT" \in modifiers -> Some("A-" \o name[1])
          [] OTHER -> name

\* the default binding lists
DefaultBindings ==
    [c \in Command |->
        CASE c = "ScrollDown"    -> {"j", "Down"}
          [] c = "ScrollUp"      -> {"k", "Up"}
          [] c = "PreviousSlide" -> {"h"}
          [] c = "NextSlide"     -> {"l"}
          [] c = "PageDown"      -> {"C-f"}
          [] c = "PageUp"        -> {"C-b"}
          [] c = "HalfPageDown"  -> {"C-d"}
          [] c = "HalfPageUp"    -> {"C-u"}
          [] c = "JumpToTop"     -> {"g"}
          [] c = "JumpToBottom"  -> {"G"}]

====
